---- MODULE Spec2Model ----
(***************************************************************************)
(* MemoryManager of packages/core/src/memory.ts.                           *)
(*                                                                         *)
(* A manager is configured with a tableName and a runtime; the runtime     *)
(* provides the database adapter (the Store) and useModel (the Embedder).  *)
(* Every method is async: it runs synchronously up to an await, and the    *)
(* awaited Store or Embedder call completes in a later step.  An action of *)
(* this module is one such step of one caller: the reply of the awaited    *)
(* call together with the synchronous code that follows it, up to the next *)
(* await, return or throw.                                                 *)
(*                                                                         *)
(* JavaScript values are tagged records [kind, val], so that truthiness,   *)
(* typeof and strict equality are computed as JavaScript computes them.    *)
(***************************************************************************)
EXTENDS Integers, Sequences, FiniteSets, TLC

VARIABLES
    store,      \* the Store: the set of rows [memory, tableName] it holds
    tableName,  \* this.tableName of the manager
    agentId,    \* this.runtime.agentId
    callers,    \* the callers that invoke the manager in this behaviour
    call        \* per caller: the invocation it is in, or its last one

vars == <<store, tableName, agentId, callers, call>>

---------------------------------------------------------------------------
(* JavaScript values *)

Undef == [kind |-> "undefined", val |-> 0]
Null == [kind |-> "null", val |-> 0]
Str(s) == [kind |-> "string", val |-> s]
Num(n) == [kind |-> "number", val |-> n]
Bool(b) == [kind |-> "boolean", val |-> b]
Arr(a) == [kind |-> "array", val |-> a]
Obj(o) == [kind |-> "object", val |-> o]

\* ToBoolean: what `if (v)`, `!v` and `v && ...` test.
Truthy(v) ==
    CASE v.kind = "undefined" -> FALSE
      [] v.kind = "null" -> FALSE
      [] v.kind = "string" -> v.val # ""
      [] v.kind = "number" -> v.val # 0
      [] v.kind = "boolean" -> v.val
      [] OTHER -> TRUE

\* typeof v
TypeOf(v) ==
    CASE v.kind = "array" -> "object"
      [] v.kind = "null" -> "object"
      [] OTHER -> v.kind

\* Array.isArray(v)
IsArray(v) == v.kind = "array"

---------------------------------------------------------------------------
(* The collaborators' values *)

\* The length of the Embedder's vectors.
EmbeddingDim == 2

\* The vector useModel(TEXT_EMBEDDING, null) yields: the fallback zero vector.
ZeroVector == [i \in 1..EmbeddingDim |-> 0]

\* The vectors useModel(TEXT_EMBEDDING, text) can yield for a text.
TextVectors == {[i \in 1..EmbeddingDim |-> i + 2], ZeroVector}

\* The values Date.now() yields.
Times == {1700}

TableNames == {"knowledge", "messages", "facts", "custom"}
AgentIds == {"a1", "a2"}
Callers == {"c1", "c2"}

\* KnowledgeMetadata: an object with these properties (absent = undefined).
KnowledgeMetadata(type, sourceId, chunkIndex, source, scope, tags, timestamp) ==
    Obj([type |-> type, sourceId |-> sourceId, chunkIndex |-> chunkIndex,
         source |-> source, scope |-> scope, tags |-> tags,
         timestamp |-> timestamp])

\* Memory: the properties the manager reads or writes.
Memory(id, agent, text, embedding, metadata) ==
    [id |-> id, agentId |-> agent, text |-> text, embedding |-> embedding,
     metadata |-> metadata]

NoMemory == Memory("", Undef, Undef, Undef, Undef)

---------------------------------------------------------------------------
(* validateMetadata: the message of the Error it throws, or Ok *)

Ok == "ok"
MemoryTypes == {Str("document"), Str("fragment"), Str("message"), Str("fact")}
Scopes == {Str("shared"), Str("private"), Str("room")}

\* validateMetadata without its check of type.
validateMetadataNoType(metadata) ==
    IF Truthy(metadata.scope) /\ metadata.scope \notin Scopes
    THEN "Metadata scope must be shared, private, or room"
    ELSE Ok

validateMetadata(metadata) ==
    IF ~Truthy(metadata.type) \/ metadata.type \notin MemoryTypes
    THEN "Invalid memory type"
    ELSE IF Truthy(metadata.sourceId) /\ TypeOf(metadata.sourceId) # "string"
    THEN "Metadata sourceId must be a UUID string"
    ELSE IF metadata.chunkIndex # Undef /\ TypeOf(metadata.chunkIndex) # "number"
    THEN "Metadata chunkIndex must be a number"
    ELSE IF Truthy(metadata.source) /\ TypeOf(metadata.source) # "string"
    THEN "Metadata source must be a string"
    ELSE IF Truthy(metadata.scope) /\ metadata.scope \notin Scopes
    THEN "Metadata scope must be shared, private, or room"
    ELSE IF Truthy(metadata.tags) /\ ~IsArray(metadata.tags)
    THEN "Metadata tags must be an array of strings"
    ELSE Ok

---------------------------------------------------------------------------
(* getTableNameForType *)

\* getTableNameForType without its case for fact.
getTableNameForTypeNoFact(type, tn) ==
    CASE type = Str("document") -> "knowledge"
      [] type = Str("fragment") -> "knowledge"
      [] type = Str("message") -> "messages"
      [] OTHER -> tn

getTableNameForType(type, tn) ==
    CASE type = Str("document") -> "knowledge"
      [] type = Str("fragment") -> "knowledge"
      [] type = Str("message") -> "messages"
      [] type = Str("fact") -> "facts"
      [] OTHER -> tn

---------------------------------------------------------------------------
(* The Store: runtime.databaseAdapter.  A row is a memory and the table it *)
(* was created in.                                                         *)

StoreRows(st, id) == {r \in st : r.memory.id = id}

\* databaseAdapter.getMemoryById(id): the values it can resolve to.
StoreGetMemoryById(st, id) ==
    IF StoreRows(st, id) = {}
    THEN {Null}
    ELSE {Obj(r.memory) : r \in StoreRows(st, id)}

\* databaseAdapter.createMemory(memory, tableName, unique): the outcomes.
\* Whether the Store enforces identity is not the manager's to say: a create
\* of an id the Store holds is rejected, replaces the row, or adds a row.
StoreCreateMemory(st, memory, tn) ==
    LET row == [memory |-> memory, tableName |-> tn]
    IN  IF StoreRows(st, memory.id) = {}
        THEN {[store |-> st \cup {row}, error |-> Ok]}
        ELSE {[store |-> st, error |-> "StoreError"],
              [store |-> (st \ StoreRows(st, memory.id)) \cup {row}, error |-> Ok],
              [store |-> st \cup {row}, error |-> Ok]}

\* databaseAdapter.removeMemory(memoryId, tableName)
StoreRemoveMemory(st, id, tn) ==
    {r \in st : ~(r.memory.id = id /\ r.tableName = tn)}

---------------------------------------------------------------------------
(* The Embedder: runtime.useModel(ModelClass.TEXT_EMBEDDING, input) *)

Thrown == [kind |-> "error", val |-> 0]

\* What a call can resolve to, Thrown when it rejects.  A null input is the
\* request for the fallback vector and does not reject.
useModel(input) ==
    IF input = Null
    THEN {Arr(ZeroVector)}
    ELSE {Arr(v) : v \in TextVectors} \cup {Thrown}

---------------------------------------------------------------------------
(* createMemory: the synchronous code between its awaits *)

\* createMemory without its duplicate check.
isExistingNever(existingMessage) == FALSE

\* The duplicate check made through the manager's own, filtered getMemoryById.
isExistingOwned(existingMessage) ==
    Truthy(existingMessage) /\ existingMessage.val.agentId = Str(agentId)

\* The duplicate check with its test inverted.
isExistingInverted(existingMessage) == ~Truthy(existingMessage)

\* if (existingMessage) return;
isExisting(existingMessage) == Truthy(existingMessage)

\* The synthesized metadata with type message whatever the tableName.
initMetadataAsMessage(memory, tn, now) ==
    IF ~Truthy(memory.metadata)
    THEN [memory EXCEPT !.metadata =
            KnowledgeMetadata(
                Str("message"), Undef, Undef, Str(tn),
                IF Truthy(memory.agentId) THEN Str("private") ELSE Str("shared"),
                Undef, Num(now))]
    ELSE memory

\* if (!memory.content.metadata) memory.content.metadata = {...}
initMetadata(memory, tn, now) ==
    IF ~Truthy(memory.metadata)
    THEN [memory EXCEPT !.metadata =
            KnowledgeMetadata(
                Str(IF tn = "knowledge" THEN "document" ELSE "message"),
                Undef, Undef, Str(tn),
                IF Truthy(memory.agentId) THEN Str("private") ELSE Str("shared"),
                Undef, Num(now))]
    ELSE memory

\* The defaults with scope private whatever the agentId.
defaultMetadataPrivate(memory, tn, now) ==
    LET md == memory.metadata.val
        ts == IF ~Truthy(md.timestamp) THEN Num(now) ELSE md.timestamp
        sc == IF ~Truthy(md.scope) THEN Str("private") ELSE md.scope
        so == IF ~Truthy(md.source) THEN Str(tn) ELSE md.source
    IN  [memory EXCEPT !.metadata =
            Obj([md EXCEPT !.timestamp = ts, !.scope = sc, !.source = so])]

\* The defaults without the one for source.
defaultMetadataNoSource(memory, tn, now) ==
    LET md == memory.metadata.val
        ts == IF ~Truthy(md.timestamp) THEN Num(now) ELSE md.timestamp
        sc == IF ~Truthy(md.scope)
              THEN (IF Truthy(memory.agentId) THEN Str("private") ELSE Str("shared"))
              ELSE md.scope
    IN  [memory EXCEPT !.metadata =
            Obj([md EXCEPT !.timestamp = ts, !.scope = sc])]

\* Ensure timestamp, set default scope, set source: each only if falsy.
defaultMetadata(memory, tn, now) ==
    LET md == memory.metadata.val
        ts == IF ~Truthy(md.timestamp) THEN Num(now) ELSE md.timestamp
        sc == IF ~Truthy(md.scope)
              THEN (IF Truthy(memory.agentId) THEN Str("private") ELSE Str("shared"))
              ELSE md.scope
        so == IF ~Truthy(md.source) THEN Str(tn) ELSE md.source
    IN  [memory EXCEPT !.metadata =
            Obj([md EXCEPT !.timestamp = ts, !.scope = sc, !.source = so])]

\* createMemory without its fallback embedding.
lacksEmbeddingNever(memory) == FALSE

\* if (!memory.embedding)
lacksEmbedding(memory) == ~Truthy(memory.embedding)

\* The arguments of databaseAdapter.createMemory(memory, table, unique).
createArgs(memory, tn, unique) ==
    [memory |-> memory,
     tableName |-> getTableNameForType(memory.metadata.val.type, tn),
     unique |-> unique]

---------------------------------------------------------------------------
(* getMemoryById: the ownership filter *)

\* getMemoryById without the ownership filter.
ownedResultUnfiltered(result, agent) == result

ownedResult(result, agent) ==
    IF Truthy(result) /\ result.val.agentId # Str(agent) THEN Null ELSE result

---------------------------------------------------------------------------
(* Callers: an invocation's position and what it has done so far *)

\* A caller that is in no invocation and has made none.
Idle ==
    [op |-> "none",          \* the method invoked
     pc |-> "idle",          \* the await the invocation is at, or done
     arg |-> NoMemory,       \* the memory argument as the caller passed it
     id |-> "",              \* the id argument
     memory |-> NoMemory,    \* the memory argument as mutated so far
     unique |-> FALSE,       \* the unique argument
     existing |-> Undef,     \* what databaseAdapter.getMemoryById resolved to
     embedCalls |-> <<>>,    \* the inputs of the useModel calls made
     embedReplies |-> <<>>,  \* what each useModel call resolved to, or Thrown
     storeCreates |-> <<>>,  \* the arguments of databaseAdapter.createMemory
     outcome |-> "none",     \* returned, threw, or pending
     value |-> Undef,        \* the value returned
     error |-> Ok,           \* the message of the Error thrown
     before |-> {}]          \* the Store's rows when the method was invoked

Invoke(op, memory, id, unique) ==
    [Idle EXCEPT !.op = op, !.pc = "idle", !.arg = memory, !.id = id,
                 !.memory = memory, !.unique = unique, !.outcome = "pending",
                 !.before = store]

Return(c, value) == [c EXCEPT !.pc = "done", !.outcome = "returned", !.value = value]
Throw(c, error) == [c EXCEPT !.pc = "done", !.outcome = "threw", !.error = error]

---------------------------------------------------------------------------
(* The arguments the callers pass *)

MetadataInputs ==
    {Undef,
     KnowledgeMetadata(Str("fact"), Undef, Undef, Undef, Undef, Undef, Undef),
     KnowledgeMetadata(Str("invalid"), Undef, Undef, Undef, Undef, Undef, Undef),
     KnowledgeMetadata(Undef, Undef, Undef, Str("web"), Str("room"), Undef, Num(5)),
     KnowledgeMetadata(Str("fragment"), Undef, Undef, Str("web"), Str("room"), Undef, Num(5)),
     KnowledgeMetadata(Str("message"), Undef, Undef, Str(""), Str(""), Undef, Num(0)),
     KnowledgeMetadata(Str("document"), Undef, Undef, Undef, Str("everyone"), Undef, Undef),
     KnowledgeMetadata(Str("fact"), Undef, Undef, Num(0), Bool(FALSE), Undef, Str("noon"))}

AgentInputs == {Undef} \cup {Str(a) : a \in AgentIds}
TextInputs == {Str(""), Str("hello")}
EmbeddingInputs == {Undef, Arr(<<>>), Arr([i \in 1..EmbeddingDim |-> i])}

\* Memories with id m1 in every combination, and one memory with id m2.
MemoryInputs ==
    {Memory("m1", a, t, e, md) :
        a \in AgentInputs, t \in TextInputs, e \in EmbeddingInputs,
        md \in MetadataInputs}
    \cup {Memory("m2", Str("a2"), Str("other"), Undef, Undef)}

IdInputs == {"m1", "m2"}

---------------------------------------------------------------------------
(* createMemory *)

\* Invocation, the reply of databaseAdapter.getMemoryById(memory.id), and the
\* code down to the await of useModel or of databaseAdapter.createMemory.
createMemory(p) ==
    /\ call[p].pc = "idle"
    /\ \E memory \in MemoryInputs, unique \in BOOLEAN, now \in Times :
       \E existingMessage \in StoreGetMemoryById(store, memory.id) :
          LET c0 == [Invoke("createMemory", memory, memory.id, unique)
                        EXCEPT !.existing = existingMessage]
              m1 == initMetadata(memory, tableName, now)
              invalid == IF Truthy(m1.metadata)
                         THEN validateMetadata(m1.metadata.val)
                         ELSE Ok
              m2 == IF Truthy(m1.metadata)
                    THEN defaultMetadata(m1, tableName, now)
                    ELSE m1
          IN  call' = [call EXCEPT ![p] =
                  IF isExisting(existingMessage)
                  THEN Return(c0, Undef)
                  ELSE IF invalid # Ok
                  THEN Throw([c0 EXCEPT !.memory = m1], invalid)
                  ELSE IF lacksEmbedding(m2)
                  THEN [c0 EXCEPT !.memory = m2, !.pc = "useModel",
                                  !.embedCalls = <<Null>>]
                  ELSE [c0 EXCEPT !.memory = m2, !.pc = "createMemory",
                                  !.storeCreates =
                                      <<createArgs(m2, tableName, unique)>>]]
    /\ UNCHANGED <<store, tableName, agentId, callers>>

\* The reply of useModel(TEXT_EMBEDDING, null), down to the await of
\* databaseAdapter.createMemory.
createMemoryEmbedded(p) ==
    /\ call[p].op = "createMemory"
    /\ call[p].pc = "useModel"
    /\ \E reply \in useModel(Null) :
          LET c == call[p]
              m == [c.memory EXCEPT !.embedding = reply]
          IN  call' = [call EXCEPT ![p] =
                  [c EXCEPT !.memory = m, !.pc = "createMemory",
                            !.embedReplies = <<reply>>,
                            !.storeCreates =
                                <<createArgs(m, tableName, c.unique)>>]]
    /\ UNCHANGED <<store, tableName, agentId, callers>>

\* The reply of databaseAdapter.createMemory.
createMemoryStored(p) ==
    /\ call[p].op = "createMemory"
    /\ call[p].pc = "createMemory"
    /\ LET c == call[p]
           a == c.storeCreates[1]
       IN  \E r \in StoreCreateMemory(store, a.memory, a.tableName) :
               /\ store' = r.store
               /\ call' = [call EXCEPT ![p] =
                      IF r.error = Ok THEN Return(c, Undef) ELSE Throw(c, r.error)]
    /\ UNCHANGED <<tableName, agentId, callers>>

---------------------------------------------------------------------------
(* getMemoryById and removeMemory *)

getMemoryById(p) ==
    /\ call[p].pc = "idle"
    /\ \E id \in IdInputs :
          \E result \in StoreGetMemoryById(store, id) :
              call' = [call EXCEPT ![p] =
                  Return([Invoke("getMemoryById", NoMemory, id, FALSE)
                             EXCEPT !.existing = result],
                         ownedResult(result, agentId))]
    /\ UNCHANGED <<store, tableName, agentId, callers>>

removeMemory(p) ==
    /\ call[p].pc = "idle"
    /\ \E memoryId \in IdInputs :
          /\ store' = StoreRemoveMemory(store, memoryId, tableName)
          /\ call' = [call EXCEPT ![p] =
                 Return(Invoke("removeMemory", NoMemory, memoryId, FALSE), Undef)]
    /\ UNCHANGED <<tableName, agentId, callers>>

---------------------------------------------------------------------------
(* addEmbeddingToMemory *)

EmptyContent == "Cannot generate embedding: Memory content is empty"

\* The early return taken only for a non-empty embedding.
hasEmbeddingNonEmpty(memory) ==
    Truthy(memory.embedding) /\ Len(memory.embedding.val) > 0

\* if (memory.embedding) return memory;
hasEmbedding(memory) == Truthy(memory.embedding)

\* if (!memoryText) throw
lacksText(memory) == ~Truthy(memory.text)

\* addEmbeddingToMemory without its catch: the rejection propagates.
catchEmbeddingRethrow(c) ==
    Throw([c EXCEPT !.embedReplies = Append(@, Thrown)], "Embedder failed")

\* catch (error): log, then await useModel(TEXT_EMBEDDING, null)
catchEmbedding(c) ==
    [c EXCEPT !.pc = "useModelNull",
              !.embedReplies = Append(@, Thrown),
              !.embedCalls = Append(@, Null)]

\* Invocation, down to the await of useModel(TEXT_EMBEDDING, memoryText).
addEmbeddingToMemory(p) ==
    /\ call[p].pc = "idle"
    /\ \E memory \in MemoryInputs :
          LET c0 == Invoke("addEmbeddingToMemory", memory, memory.id, FALSE)
          IN  call' = [call EXCEPT ![p] =
                  IF hasEmbedding(memory)
                  THEN Return(c0, Obj(memory))
                  ELSE IF lacksText(memory)
                  THEN Throw(c0, EmptyContent)
                  ELSE [c0 EXCEPT !.pc = "useModel",
                                  !.embedCalls = <<memory.text>>]]
    /\ UNCHANGED <<store, tableName, agentId, callers>>

\* The reply of useModel(TEXT_EMBEDDING, memoryText): the embedding is set
\* and the memory returned, or the rejection is caught.
addEmbeddingEmbedded(p) ==
    /\ call[p].op = "addEmbeddingToMemory"
    /\ call[p].pc = "useModel"
    /\ \E reply \in useModel(call[p].embedCalls[1]) :
          LET c == call[p]
              m == [c.memory EXCEPT !.embedding = reply]
          IN  call' = [call EXCEPT ![p] =
                  IF reply = Thrown
                  THEN catchEmbedding(c)
                  ELSE Return([c EXCEPT !.memory = m,
                                        !.embedReplies = <<reply>>], Obj(m))]
    /\ UNCHANGED <<store, tableName, agentId, callers>>

\* The reply of useModel(TEXT_EMBEDDING, null) in the catch block.
addEmbeddingFallback(p) ==
    /\ call[p].op = "addEmbeddingToMemory"
    /\ call[p].pc = "useModelNull"
    /\ \E reply \in useModel(Null) :
          LET c == call[p]
              m == [c.memory EXCEPT !.embedding = reply]
          IN  call' = [call EXCEPT ![p] =
                  Return([c EXCEPT !.memory = m,
                                   !.embedReplies = Append(@, reply)], Obj(m))]
    /\ UNCHANGED <<store, tableName, agentId, callers>>

\* The caller's own await resumes with the outcome; it is free to call again.
resume(p) ==
    /\ call[p].pc = "done"
    /\ call' = [call EXCEPT ![p] = Idle]
    /\ UNCHANGED <<store, tableName, agentId, callers>>

---------------------------------------------------------------------------
(* One manager, its Store, and one caller that awaits each call *)

Init ==
    /\ store = {}
    /\ tableName \in TableNames
    /\ agentId = "a1"
    /\ callers = {"c1"}
    /\ call = [p \in Callers |-> Idle]

Next ==
    \E p \in callers :
        \/ createMemory(p)
        \/ createMemoryEmbedded(p)
        \/ createMemoryStored(p)
        \/ getMemoryById(p)
        \/ removeMemory(p)
        \/ addEmbeddingToMemory(p)
        \/ addEmbeddingEmbedded(p)
        \/ addEmbeddingFallback(p)
        \/ resume(p)

Spec == Init /\ [][Next]_vars

---------------------------------------------------------------------------
(* One manager, its Store, and two callers whose calls overlap: neither    *)
(* awaits the other, so the steps of their createMemory calls interleave.  *)

\* The memories the two callers create: one id, with and without embedding
\* and metadata.
ConcurrentInputs ==
    {m \in MemoryInputs :
        /\ m.id = "m1"
        /\ m.agentId = Str("a1")
        /\ m.text = Str("hello")
        /\ m.embedding # Arr(<<>>)
        /\ m.metadata \in {Undef, KnowledgeMetadata(Str("fact"), Undef, Undef,
                                                    Undef, Undef, Undef, Undef)}}

InitConc ==
    /\ store = {}
    /\ tableName \in TableNames
    /\ agentId = "a1"
    /\ callers = Callers
    /\ call = [p \in Callers |-> Idle]

NextConc ==
    \E p \in callers :
        \/ createMemory(p) /\ call'[p].arg \in ConcurrentInputs
        \/ createMemoryEmbedded(p)
        \/ createMemoryStored(p)
        \/ resume(p)

SpecConc == InitConc /\ [][NextConc]_vars

---------------------------------------------------------------------------
(* validateMetadata on its own, over metadata of every shape *)

ValidatorInputs ==
    {KnowledgeMetadata(type, sourceId, chunkIndex, source, scope, tags, Undef) :
        type \in {Undef, Str(""), Str("invalid"), Str("fact"), Str("document")},
        sourceId \in {Undef, Str("s1"), Str(""), Num(0), Num(7), Bool(FALSE)},
        chunkIndex \in {Undef, Num(0), Num(3), Str("1"), Bool(FALSE)},
        source \in {Undef, Str("web"), Str(""), Num(0), Num(5)},
        scope \in {Undef, Str("room"), Str(""), Str("everyone"), Num(0)},
        tags \in {Undef, Arr(<<>>), Arr(<<"a">>), Str("a"), Str(""), Bool(FALSE)}}

\* A call of validateMetadata: it returns, or throws its Error.
validate(p) ==
    /\ call[p].pc = "idle"
    /\ \E metadata \in ValidatorInputs :
          LET c0 == Invoke("validateMetadata",
                           Memory("", Undef, Undef, Undef, metadata), "", FALSE)
              invalid == validateMetadata(metadata.val)
          IN  call' = [call EXCEPT ![p] =
                  IF invalid = Ok THEN Return(c0, Undef) ELSE Throw(c0, invalid)]
    /\ UNCHANGED <<store, tableName, agentId, callers>>

NextValidate ==
    \E p \in callers :
        \/ validate(p)
        \/ resume(p)

SpecValidate == Init /\ [][NextValidate]_vars

---------------------------------------------------------------------------
(* Properties *)

Finished(c, op) == c.op = op /\ c.pc = "done"

\* C1: a createMemory of an id the Store already holds (from an earlier,
\* completed createMemory) returns without error, makes no Store create and
\* leaves the Store as it was: still exactly one row of that id, the first.
C1_DuplicateCreateIsNoOp ==
    /\ \A id \in IdInputs : Cardinality(StoreRows(store, id)) <= 1
    /\ \A p \in callers :
          LET c == call[p]
          IN  c.op = "createMemory" /\ StoreRows(c.before, c.arg.id) # {} =>
                  /\ c.pc = "done"
                  /\ c.outcome = "returned"
                  /\ c.storeCreates = <<>>
                  /\ store = c.before
                  /\ Cardinality(StoreRows(store, c.arg.id)) = 1

\* A second create of an id, with other content than the stored one, is over.
C1_Witness ==
    \E p \in callers :
        /\ Finished(call[p], "createMemory")
        /\ \E r \in StoreRows(call[p].before, call[p].arg.id) :
              /\ r.memory.text # call[p].arg.text
              /\ r.memory.agentId # call[p].arg.agentId
              /\ Truthy(call[p].arg.metadata)

\* C2: every memory handed to databaseAdapter.createMemory carries a
\* non-empty embedding vector.
C2_CreatedEmbeddingNonEmpty ==
    \A p \in callers :
        \A i \in 1..Len(call[p].storeCreates) :
            LET e == call[p].storeCreates[i].memory.embedding
            IN  IsArray(e) /\ Len(e.val) > 0

\* C3 as stated: createMemory of a new id with no embedding and empty text
\* throws the empty-content error and makes no Store create.
C3_EmptyTextCreateThrows ==
    \A p \in callers :
        LET c == call[p]
        IN  /\ Finished(c, "createMemory")
            /\ StoreRows(c.before, c.arg.id) = {}
            /\ c.arg.embedding = Undef
            /\ ~Truthy(c.arg.text)
            => /\ c.outcome = "threw"
               /\ c.error = EmptyContent
               /\ c.storeCreates = <<>>
               /\ store = c.before

\* C3 amended: createMemory of a new id with no embedding and empty text
\* never throws the empty-content error; unless its metadata is invalid it
\* calls the Embedder exactly once, with null, hands the memory with the
\* vector of that call to the Store, and returns with the row stored.
C3_EmptyTextCreateStoresFallback ==
    \A p \in callers :
        LET c == call[p]
        IN  /\ c.op = "createMemory"
            /\ StoreRows(c.before, c.arg.id) = {}
            /\ c.arg.embedding = Undef
            /\ ~Truthy(c.arg.text)
            => /\ c.error # EmptyContent
               /\ c.outcome = "threw" =>
                      /\ Truthy(c.arg.metadata)
                      /\ validateMetadata(c.arg.metadata.val) # Ok
               /\ c.outcome # "threw" => c.embedCalls = <<Null>>
               /\ c.pc = "done" /\ c.outcome = "returned" =>
                      /\ c.embedReplies = <<Arr(ZeroVector)>>
                      /\ Len(c.storeCreates) = 1
                      /\ c.storeCreates[1].memory.embedding = Arr(ZeroVector)
                      /\ c.storeCreates[1].memory.text = c.arg.text
                      /\ [memory |-> c.storeCreates[1].memory,
                          tableName |-> c.storeCreates[1].tableName] \in store

\* An empty-text create without embedding has returned with its row stored.
C3_Witness ==
    \E p \in callers :
        /\ Finished(call[p], "createMemory")
        /\ call[p].arg.embedding = Undef
        /\ call[p].arg.text = Str("")
        /\ call[p].outcome = "returned"
        /\ Len(call[p].storeCreates) = 1
        /\ StoreRows(store, call[p].arg.id) # {}

\* C4: createMemory of a new id whose metadata is present with a type that is
\* missing or outside the closed set throws the validation error at once:
\* no Embedder call, no Store create, the Store as it was.
C4_InvalidTypeThrowsBeforeAnyWrite ==
    \A p \in callers :
        LET c == call[p]
        IN  /\ c.op = "createMemory"
            /\ StoreRows(c.before, c.arg.id) = {}
            /\ Truthy(c.arg.metadata)
            /\ c.arg.metadata.val.type \notin MemoryTypes
            => /\ c.pc = "done"
               /\ c.outcome = "threw"
               /\ c.error = "Invalid memory type"
               /\ c.embedCalls = <<>>
               /\ c.storeCreates = <<>>
               /\ store = c.before

\* A create with metadata {type: "invalid"} has thrown.
C4_Witness ==
    \E p \in callers :
        /\ Finished(call[p], "createMemory")
        /\ Truthy(call[p].arg.metadata)
        /\ call[p].arg.metadata.val.type = Str("invalid")
        /\ call[p].outcome = "threw"

\* C5: the table of every Store create is fixed by the memory's final
\* metadata.type alone: document and fragment give knowledge, message gives
\* messages, fact gives facts, whatever the manager's tableName.
C5_TableFollowsType ==
    \A p \in callers :
        \A i \in 1..Len(call[p].storeCreates) :
            LET a == call[p].storeCreates[i]
                type == a.memory.metadata.val.type
            IN  /\ type \in {Str("document"), Str("fragment")} => a.tableName = "knowledge"
                /\ type = Str("message") => a.tableName = "messages"
                /\ type = Str("fact") => a.tableName = "facts"

\* A fact is handed to the Store for the facts table by a manager of another
\* table.
C5_Witness ==
    \E p \in callers :
        /\ Len(call[p].storeCreates) = 1
        /\ call[p].storeCreates[1].memory.metadata.val.type = Str("fact")
        /\ call[p].storeCreates[1].tableName = "facts"
        /\ tableName = "custom"

\* C6: a memory created without an explicit metadata.scope (no metadata, or
\* metadata without scope) is handed to the Store with scope private when
\* its agentId is set and shared when it is absent.
C6_DefaultScopeFollowsAgent ==
    \A p \in callers :
        \A i \in 1..Len(call[p].storeCreates) :
            LET c == call[p]
                scope == c.storeCreates[i].memory.metadata.val.scope
            IN  (c.arg.metadata = Undef \/ c.arg.metadata.val.scope = Undef) =>
                    /\ c.arg.agentId # Undef => scope = Str("private")
                    /\ c.arg.agentId = Undef => scope = Str("shared")

\* A memory with metadata but neither scope nor agentId is stored as shared.
C6_Witness ==
    \E p \in callers :
        /\ Finished(call[p], "createMemory")
        /\ call[p].outcome = "returned"
        /\ Len(call[p].storeCreates) = 1
        /\ Truthy(call[p].arg.metadata)
        /\ call[p].arg.metadata.val.scope = Undef
        /\ call[p].arg.agentId = Undef
        /\ call[p].storeCreates[1].memory.metadata.val.scope = Str("shared")

\* C7: a memory created without metadata is handed to the Store with
\* metadata of type document on a knowledge manager and message otherwise,
\* source the manager's tableName, and a timestamp; on a knowledge manager
\* it is stored into the knowledge table.
C7_SynthesizedMetadata ==
    \A p \in callers :
        LET c == call[p]
        IN  c.op = "createMemory" /\ c.arg.metadata = Undef =>
                /\ \A i \in 1..Len(c.storeCreates) :
                      LET a == c.storeCreates[i]
                          md == a.memory.metadata.val
                      IN  /\ md.type = Str(IF tableName = "knowledge"
                                           THEN "document" ELSE "message")
                          /\ md.source = Str(tableName)
                          /\ md.timestamp \in {Num(t) : t \in Times}
                          /\ tableName = "knowledge" => a.tableName = "knowledge"
                /\ c.pc = "done" /\ c.outcome = "returned" /\ c.existing = Null
                   /\ tableName = "knowledge" =>
                      \E r \in store :
                          /\ r.memory.id = c.arg.id
                          /\ r.tableName = "knowledge"
                          /\ r.memory.metadata.val.type = Str("document")
                          /\ r.memory.metadata.val.source = Str("knowledge")

\* A memory without metadata has been stored by a knowledge manager.
C7_Witness ==
    \E p \in callers :
        /\ Finished(call[p], "createMemory")
        /\ call[p].arg.metadata = Undef
        /\ call[p].outcome = "returned"
        /\ Len(call[p].storeCreates) = 1
        /\ tableName = "knowledge"
        /\ StoreRows(store, call[p].arg.id) # {}

\* C8: getMemoryById returns null when the Store's record of the id has an
\* agentId other than the runtime's (or none), and the Store's record when
\* its agentId is the runtime's; it never returns another agent's record.
C8_OwnershipFilter ==
    \A p \in callers :
        LET c == call[p]
            rows == StoreRows(store, c.id)
        IN  Finished(c, "getMemoryById") =>
                /\ c.outcome = "returned"
                /\ rows = {} => c.value = Null
                /\ \A r \in rows :
                      /\ r.memory.agentId # Str(agentId) => c.value = Null
                      /\ r.memory.agentId = Str(agentId) => c.value = Obj(r.memory)
                /\ c.value # Null => c.value.val.agentId = Str(agentId)

\* The Store holds a record without agentId and getMemoryById returned null.
C8_Witness ==
    \E p \in callers :
        /\ Finished(call[p], "getMemoryById")
        /\ \E r \in StoreRows(store, call[p].id) : r.memory.agentId = Undef
        /\ call[p].value = Null

\* C9: addEmbeddingToMemory throws no Embedder error: when the Embedder call
\* with the text rejects, the Embedder is called exactly once more, with
\* null, and the memory is returned with the vector of that second call.
C9_EmbedderFailureFallsBack ==
    \A p \in callers :
        LET c == call[p]
        IN  c.op = "addEmbeddingToMemory" =>
                /\ c.outcome = "threw" => c.error = EmptyContent /\ c.embedCalls = <<>>
                /\ Len(c.embedReplies) >= 1 /\ c.embedReplies[1] = Thrown =>
                      /\ Truthy(c.arg.text) /\ c.arg.embedding = Undef
                      /\ c.embedCalls = <<c.arg.text, Null>>
                      /\ c.pc = "done" =>
                            /\ c.outcome = "returned"
                            /\ Len(c.embedReplies) = 2
                            /\ c.embedReplies[2] # Thrown
                            /\ c.value = Obj([c.arg EXCEPT !.embedding = c.embedReplies[2]])

\* The Embedder rejected the text and the memory came back with the fallback.
C9_Witness ==
    \E p \in callers :
        /\ Finished(call[p], "addEmbeddingToMemory")
        /\ Len(call[p].embedReplies) = 2
        /\ call[p].embedReplies[1] = Thrown
        /\ call[p].outcome = "returned"

\* C10: addEmbeddingToMemory of a memory whose embedding is set returns the
\* memory as it was passed and makes no Embedder call, whatever its text.
C10_EmbeddingKept ==
    \A p \in callers :
        LET c == call[p]
        IN  c.op = "addEmbeddingToMemory" /\ c.arg.embedding # Undef =>
                /\ c.pc = "done"
                /\ c.outcome = "returned"
                /\ c.value = Obj(c.arg)
                /\ c.embedCalls = <<>>

\* A memory with an embedding and empty text came back from the ensurer.
C10_Witness ==
    \E p \in callers :
        /\ Finished(call[p], "addEmbeddingToMemory")
        /\ call[p].arg.embedding # Undef
        /\ call[p].arg.text = Str("")
        /\ call[p].outcome = "returned"

\* C11: the manager does not serialize two overlapping createMemory calls of
\* one new id: each call whose own duplicate check found nothing goes on to
\* databaseAdapter.createMemory, whatever the other call has done meanwhile.
C11_ConcurrentCreatesBothInsert ==
    \A p, q \in callers :
        LET c == call[p]
            d == call[q]
        IN  /\ p # q
            /\ c.op = "createMemory" /\ d.op = "createMemory"
            /\ c.arg.id = d.arg.id
            /\ c.existing = Null /\ d.existing = Null
            /\ c.pc \in {"createMemory", "done"}
            /\ d.pc \in {"createMemory", "done"}
            => /\ Len(c.storeCreates) = 1
               /\ Len(d.storeCreates) = 1
               /\ c.storeCreates[1].memory.id = d.storeCreates[1].memory.id

\* Both calls have passed the duplicate check and have their Store create
\* under way while the Store still holds no row of the id.
C11_Witness ==
    \E p, q \in callers :
        /\ p # q
        /\ call[p].op = "createMemory" /\ call[q].op = "createMemory"
        /\ call[p].pc = "createMemory" /\ call[q].pc = "createMemory"
        /\ call[p].existing = Null /\ call[q].existing = Null
        /\ call[p].arg.id = call[q].arg.id
        /\ Len(call[p].storeCreates) = 1 /\ Len(call[q].storeCreates) = 1
        /\ StoreRows(store, call[p].arg.id) = {}

\* C12 as stated: createMemory of a new memory without embedding and with
\* text calls the Embedder with that text first, and with null only after
\* the call with the text has rejected.
C12_CreateEmbedsText ==
    \A p \in callers :
        LET c == call[p]
        IN  /\ c.op = "createMemory"
            /\ c.existing = Null
            /\ c.arg.embedding = Undef
            /\ Truthy(c.arg.text)
            => \A i \in 1..Len(c.embedCalls) :
                  /\ i = 1 => c.embedCalls[i] = c.arg.text
                  /\ c.embedCalls[i] = Null =>
                        /\ i > 1
                        /\ Len(c.embedReplies) >= i - 1
                        /\ c.embedReplies[i - 1] = Thrown

\* C12 amended: createMemory of a new memory without embedding and with text
\* never calls the Embedder with the text: unless validation fails it calls
\* it once, with null, and hands the vector of that call to the Store.  Only
\* addEmbeddingToMemory calls the Embedder with the text, and with null only
\* after that call has rejected.
C12_CreateEmbedsNull ==
    \A p \in callers :
        LET c == call[p]
        IN  /\ /\ c.op = "createMemory"
               /\ c.existing = Null
               /\ c.arg.embedding = Undef
               /\ Truthy(c.arg.text)
               => /\ \A i \in 1..Len(c.embedCalls) : c.embedCalls[i] # c.arg.text
                  /\ c.error = Ok => c.embedCalls = <<Null>>
                  /\ c.error # Ok => c.embedCalls = <<>>
                  /\ c.pc \in {"createMemory", "done"} /\ c.error = Ok =>
                        /\ Len(c.embedReplies) = 1
                        /\ Len(c.storeCreates) = 1
                        /\ c.storeCreates[1].memory.embedding = c.embedReplies[1]
            /\ c.op = "addEmbeddingToMemory" =>
                  \A i \in 1..Len(c.embedCalls) :
                      /\ i = 1 => c.embedCalls[i] = c.arg.text
                      /\ c.embedCalls[i] = Null =>
                            i = 2 /\ c.embedReplies[1] = Thrown

\* A memory with text and no embedding has been created with the vector of
\* a null call.
C12_Witness ==
    \E p \in callers :
        /\ Finished(call[p], "createMemory")
        /\ call[p].arg.embedding = Undef
        /\ call[p].arg.text = Str("hello")
        /\ call[p].outcome = "returned"
        /\ call[p].embedCalls = <<Null>>
        /\ Len(call[p].storeCreates) = 1

\* The conditions under which the validator is to fail, a property being
\* present when it is not undefined.
C13_ShouldFail(md) ==
    \/ md.type \notin MemoryTypes
    \/ md.sourceId # Undef /\ md.sourceId.kind # "string"
    \/ md.chunkIndex # Undef /\ md.chunkIndex.kind # "number"
    \/ md.source # Undef /\ md.source.kind # "string"
    \/ md.scope # Undef /\ md.scope \notin Scopes
    \/ md.tags # Undef /\ md.tags.kind # "array"

\* C13: validateMetadata throws exactly for the metadata in which a listed
\* condition holds, present values such as 0, false and "" included.
C13_ValidatorIsExact ==
    \A p \in callers :
        LET c == call[p]
        IN  Finished(c, "validateMetadata") =>
                (c.outcome = "threw" <=> C13_ShouldFail(c.arg.metadata.val))

\* C14: with metadata present, each of timestamp, scope and source that the
\* caller gave (any present value) is the value handed to the Store.
C14_ExplicitValuesKept ==
    \A p \in callers :
        \A i \in 1..Len(call[p].storeCreates) :
            LET c == call[p]
                md == c.storeCreates[i].memory.metadata.val
            IN  Truthy(c.arg.metadata) =>
                    /\ c.arg.metadata.val.timestamp # Undef =>
                          md.timestamp = c.arg.metadata.val.timestamp
                    /\ c.arg.metadata.val.scope # Undef =>
                          md.scope = c.arg.metadata.val.scope
                    /\ c.arg.metadata.val.source # Undef =>
                          md.source = c.arg.metadata.val.source

\* C15: createMemory of an id the Store holds returns successfully with the
\* validator not run, no Embedder call, no Store create, and the memory
\* argument as it was passed.
C15_DuplicateLeavesArgument ==
    \A p \in callers :
        LET c == call[p]
        IN  c.op = "createMemory" /\ Truthy(c.existing) =>
                /\ c.pc = "done"
                /\ c.outcome = "returned"
                /\ c.error = Ok
                /\ c.embedCalls = <<>>
                /\ c.embedReplies = <<>>
                /\ c.storeCreates = <<>>
                /\ c.memory = c.arg

\* A duplicate create of a memory with invalid metadata, empty text and no
\* embedding has returned.
C15_Witness ==
    \E p \in callers :
        /\ Finished(call[p], "createMemory")
        /\ Truthy(call[p].existing)
        /\ Truthy(call[p].arg.metadata)
        /\ validateMetadata(call[p].arg.metadata.val) # Ok
        /\ call[p].arg.text = Str("")
        /\ call[p].arg.embedding = Undef
        /\ call[p].outcome = "returned"

\* C16: every Store create targets knowledge, messages or facts, so a manager
\* of another tableName never inserts into its own table.
C16_RoutingFallbackUnused ==
    /\ \A p \in callers :
          \A i \in 1..Len(call[p].storeCreates) :
              call[p].storeCreates[i].tableName \in {"knowledge", "messages", "facts"}
    /\ \A r \in store : r.tableName \in {"knowledge", "messages", "facts"}
    /\ tableName \notin {"knowledge", "messages", "facts"} =>
          \A r \in store : r.tableName # tableName

\* A manager of the table custom has stored a memory.
C16_Witness ==
    /\ tableName = "custom"
    /\ \E p \in callers :
          /\ Finished(call[p], "createMemory")
          /\ call[p].outcome = "returned"
          /\ Len(call[p].storeCreates) = 1
          /\ \E r \in store : r.memory = call[p].storeCreates[1].memory

\* C17: once removeMemory(id) has returned, the Store holds no record of the
\* id (every record in it was created through this manager).
C17_RemovedIsGone ==
    \A p \in callers :
        Finished(call[p], "removeMemory") => StoreRows(store, call[p].id) = {}

\* What the manager's getMemoryById returns for an id in a Store: absent.
C18_GetReturnsAbsent(st, id) ==
    \A result \in StoreGetMemoryById(st, id) : ownedResult(result, agentId) = Null

C18_ValidArgument(c) ==
    Truthy(c.arg.metadata) => validateMetadata(c.arg.metadata.val) = Ok

\* C18 as stated: when getMemoryById(id) returns absent, a createMemory of a
\* valid memory of that id invoked next is not skipped as a duplicate.
C18_CreateAgreesWithGet ==
    \A p \in callers :
        LET c == call[p]
        IN  /\ c.op = "createMemory"
            /\ C18_ValidArgument(c)
            /\ C18_GetReturnsAbsent(c.before, c.arg.id)
            => /\ c.existing = Null
               /\ c.pc \in {"createMemory", "done"} => Len(c.storeCreates) = 1

\* C18 amended: when the Store itself holds no record of the id, a
\* createMemory of a valid memory of that id is not skipped and reaches the
\* Store create; a record of another agent, or of none, which getMemoryById
\* hides, makes createMemory skip all the same.
C18_CreateAgreesWithStore ==
    \A p \in callers :
        LET c == call[p]
        IN  c.op = "createMemory" /\ C18_ValidArgument(c) =>
                /\ StoreRows(c.before, c.arg.id) = {} =>
                      /\ c.existing = Null
                      /\ c.pc \in {"createMemory", "done"} =>
                            Len(c.storeCreates) = 1
                /\ StoreRows(c.before, c.arg.id) # {} =>
                      /\ Truthy(c.existing)
                      /\ c.storeCreates = <<>>

\* getMemoryById returns absent for the id, the Store holds a record of it
\* (of another agent or of none), and a valid create of it was skipped.
C18_Witness ==
    \E p \in callers :
        /\ Finished(call[p], "createMemory")
        /\ C18_ValidArgument(call[p])
        /\ C18_GetReturnsAbsent(call[p].before, call[p].arg.id)
        /\ StoreRows(call[p].before, call[p].arg.id) # {}
        /\ call[p].storeCreates = <<>>
        /\ call[p].outcome = "returned"

\* C19: every memory handed to the Store carries metadata with a type of the
\* closed set, a scope of the closed set, a string source and a timestamp.
C19_CreatedMetadataComplete ==
    \A p \in callers :
        \A i \in 1..Len(call[p].storeCreates) :
            LET m == call[p].storeCreates[i].memory
            IN  /\ Truthy(m.metadata)
                /\ m.metadata.val.type \in MemoryTypes
                /\ m.metadata.val.scope \in Scopes
                /\ m.metadata.val.source.kind = "string"
                /\ m.metadata.val.source.val # ""
                /\ m.metadata.val.timestamp # Undef

\* Metadata given with source 0 and scope false is handed to the Store with
\* the defaults in their place.
C19_Witness ==
    \E p \in callers :
        /\ Len(call[p].storeCreates) = 1
        /\ Truthy(call[p].arg.metadata)
        /\ call[p].arg.metadata.val.source = Num(0)
        /\ call[p].arg.metadata.val.scope = Bool(FALSE)
        /\ call[p].storeCreates[1].memory.metadata.val.source = Str(tableName)

====
